---- MODULE Spec2Model ----
(***************************************************************************)
(* Model of the AI request/response adapter layer of xhs-ai-tool:          *)
(* AIService (provider clients, dispatch, adapters, error wrapping),       *)
(* buildChatMessages (history windowing), validateContentResponse, and     *)
(* the chat interface's requestAIResponse / handleSendMessage.             *)
(*                                                                         *)
(* The repository carries two generations of the service: the one in      *)
(* src/src/services/AIService.ts (two adapters, constructor tolerates an   *)
(* empty key) and the one in src/unnamed/part_008 (three adapters,         *)
(* constructor throws on an empty key).  The variable build selects it.    *)
(***************************************************************************)
EXTENDS Integers, Sequences, FiniteSets, TLC

VARIABLES
    build,      \* "legacy" (AIService.ts) or "multi" (part_008)
    svc,        \* the AIService instance under direct use: config + clients
    inflight,   \* provider requests awaiting their response
    lastResult, \* outcome of the last direct chatCompletion call that settled
    aiConfig,   \* the chat interface's configuration (useAIConfig)
    messages,   \* the chat interface's message list (useMessages)
    isLoading,  \* the chat interface's loading flag
    lastDiag,   \* diagnostics of the last reply handled by requestAIResponse
    history,    \* input of buildChatMessages (windowing specification)
    sent,       \* output of buildChatMessages (windowing specification)
    ports       \* extension messages sent to the background, until their
                \* sender is done with them

vars ==
    <<build, svc, inflight, lastResult, aiConfig, messages, isLoading,
      lastDiag, history, sent, ports>>

(***************************************************************************)
(* Bounds of the model                                                     *)
(***************************************************************************)
MaxInFlight ==
    1

MaxMsgs ==
    3

MaxHist ==
    8

\* longest message array a caller hands to chatCompletion
MaxTurns ==
    2

\* most messages of a conversation that goes into a second round
MaxTurnMsgs ==
    6

\* most extension messages under way at once
MaxPorts ==
    2

\* most apply clicks in one conversation
MaxApplies ==
    1

\* the most images one message carries
MaxImages ==
    2

(***************************************************************************)
(* Program constants                                                       *)
(***************************************************************************)
WindowThreshold ==
    6

ValidatorContentMax ==
    10000

ValidatorTitleMax ==
    100

SchemaContentMax ==
    1000

SchemaTitleMax ==
    20

(***************************************************************************)
(* Configurations                                                          *)
(***************************************************************************)
\* provider strings a stored configuration can carry: the three the service
\* of part_008 knows, and one the settings panel offers that it does not
Providers ==
    {"claude", "chatgpt", "qwen", "gemini"}

ApiKeys ==
    {"", "k1", "k2"}

\* {provider, apiKey}: the AIConfig of the settings panel.  The optional
\* baseUrl of AIService.ts is left unset, so that build's OpenAI client gets
\* its default URL.
Configs ==
    [provider : Providers, apiKey : ApiKeys]

Builds ==
    {"legacy", "multi"}

MessageSources ==
    {"post", "comment", "reply"}

OpenAIDefaultURL ==
    "https://api.openai.com/v1"

DashscopeURL ==
    "https://dashscope.aliyuncs.com/compatible-mode/v1"

NoClient ==
    [kind |-> "none", apiKey |-> "", baseURL |-> ""]

NoConfig ==
    [provider |-> "none", apiKey |-> ""]

\* no AIService object exists (never constructed, or its constructor threw)
NoService ==
    [exists |-> FALSE, config |-> NoConfig, openai |-> NoClient,
     anthropic |-> NoClient]

(***************************************************************************)
(* AIService                                                               *)
(***************************************************************************)
\* new Anthropic({apiKey}) / new OpenAI({apiKey, baseURL})
AnthropicClient(cfg) ==
    [kind |-> "anthropic", apiKey |-> cfg.apiKey, baseURL |-> ""]

OpenAIClient(cfg, url) ==
    [kind |-> "openai", apiKey |-> cfg.apiKey, baseURL |-> url]

\* initializeClient on service s.  It is only called with a non-empty key,
\* and the SDK constructors, given a key and dangerouslyAllowBrowser, do not
\* throw: its catch block is never entered.
InitializeClient(b, s) ==
    IF s.config.provider = "claude"
    THEN [s EXCEPT !.anthropic = AnthropicClient(s.config)]
    ELSE IF b = "legacy"
    THEN [s EXCEPT !.openai = OpenAIClient(s.config, OpenAIDefaultURL)]
    ELSE IF s.config.provider = "chatgpt"
    THEN [s EXCEPT !.openai = OpenAIClient(s.config, OpenAIDefaultURL)]
    ELSE IF s.config.provider = "qwen"
    THEN [s EXCEPT !.openai = OpenAIClient(s.config, DashscopeURL)]
    ELSE s

\* new AIService(cfg).  Result: [threw, err, s]; when the constructor throws
\* there is no object.
NewAIService(b, cfg) ==
    LET fresh == [exists |-> TRUE, config |-> cfg, openai |-> NoClient,
                  anthropic |-> NoClient]
    IN  IF cfg.apiKey # ""
        THEN [threw |-> FALSE, err |-> "", s |-> InitializeClient(b, fresh)]
        ELSE IF b = "multi"
        THEN [threw |-> TRUE, err |-> "NoApiKey", s |-> NoService]
        ELSE [threw |-> FALSE, err |-> "", s |-> fresh]

ResetClients_KeepOld(s) ==
    s

\* the two client fields after updateConfig's reset
ResetClients(s) ==
    [s EXCEPT !.openai = NoClient, !.anthropic = NoClient]

\* updateConfig(newConfig) on service s: the service it leaves behind
UpdateConfigResult(b, s, newConfig) ==
    LET s1 == ResetClients([s EXCEPT !.config = newConfig])
    IN  IF newConfig.apiKey # ""
        THEN InitializeClient(b, s1)
        ELSE s1

IsConfigured(s) ==
    IF s.config.provider = "claude"
    THEN s.config.apiKey # "" /\ s.anthropic # NoClient
    ELSE s.config.apiKey # "" /\ s.openai # NoClient

\* the adapter chatCompletion dispatches to
Adapter(b, s) ==
    IF s.config.provider = "claude" THEN "claude"
    ELSE IF b = "legacy" THEN "openai_legacy"
    ELSE IF s.config.provider = "chatgpt" THEN "chatgpt"
    ELSE IF s.config.provider = "qwen" THEN "qwen"
    ELSE "unsupported"

\* the client field an adapter uses
AdapterClient(s, adapter) ==
    IF adapter = "claude" THEN s.anthropic
    ELSE IF adapter = "unsupported" THEN NoClient
    ELSE s.openai

(***************************************************************************)
(* Candidates: what a provider hands back once it is parsed.  A field is   *)
(* absent (or null: the code cannot tell them apart), a non-zero number,   *)
(* or a string known by its length.                                        *)
(***************************************************************************)
AbsentField ==
    [t |-> "absent", len |-> 0]

NumberField ==
    [t |-> "number", len |-> 0]

StringField(n) ==
    [t |-> "string", len |-> n]

TitleLens ==
    {0, SchemaTitleMax, SchemaTitleMax + 1, ValidatorTitleMax, ValidatorTitleMax + 1}

ContentLens ==
    {0, SchemaContentMax, SchemaContentMax + 1, ValidatorContentMax,
     ValidatorContentMax + 1}

TitleFields ==
    {AbsentField, NumberField} \cup {StringField(n) : n \in TitleLens}

ContentFields ==
    {AbsentField, NumberField} \cup {StringField(n) : n \in ContentLens}

ObjectCandidates ==
    [kind : {"object"}, title : TitleFields, content : ContentFields]

\* a bare JSON string and JSON null
StringCandidate ==
    [kind |-> "string", title |-> AbsentField, content |-> AbsentField]

NullCandidate ==
    [kind |-> "null", title |-> AbsentField, content |-> AbsentField]

\* {} : what the chatgpt adapter validates when the arguments do not parse
EmptyObject ==
    [kind |-> "object", title |-> AbsentField, content |-> AbsentField]

Candidates ==
    ObjectCandidates \cup {StringCandidate, NullCandidate}

\* typeof f === 'string'
IsString(f) ==
    f.t = "string"

\* JavaScript truthiness of a field: !f is ~Truthy(f)
Truthy(f) ==
    \/ f.t = "number"
    \/ f.t = "string" /\ f.len > 0

\* f.length > n, which is false when f has no length
LongerThan(f, n) ==
    f.t = "string" /\ f.len > n

ValidateContentResponse_NoTitleCheck(response, msgSource) ==
    /\ response.kind = "object"
    /\ IsString(response.content)
    /\ ~(response.content.len > ValidatorContentMax)

\* validateContentResponse(response, msgSource)
ValidateContentResponse(response, msgSource) ==
    IF \/ response.kind # "object"
       \/ ~IsString(response.content)
       \/ response.content.len > ValidatorContentMax
    THEN FALSE
    ELSE IF msgSource = "post"
    THEN IsString(response.title) /\ response.title.len <= ValidatorTitleMax
    ELSE TRUE

\* the errors array requestAIResponse builds when validation fails; reading
\* a property of null throws a TypeError instead ("threw")
Diagnostics(parsed, msgSource) ==
    IF parsed.kind = "null"
    THEN {"threw"}
    ELSE (IF msgSource = "post" /\ ~Truthy(parsed.title)
          THEN {"missing_title"} ELSE {})
         \cup (IF ~Truthy(parsed.content) THEN {"missing_content"} ELSE {})
         \cup (IF Truthy(parsed.title) /\ LongerThan(parsed.title, SchemaTitleMax)
               THEN {"title_too_long"} ELSE {})
         \cup (IF Truthy(parsed.content)
                  /\ LongerThan(parsed.content, SchemaContentMax)
               THEN {"content_too_long"} ELSE {})

(***************************************************************************)
(* Reply texts.  A text is empty, something that is no JSON, or the JSON   *)
(* of a candidate; it may sit in a ```json fence or in a bare ``` fence.    *)
(***************************************************************************)
Fences ==
    {"none", "json", "plain"}

EmptyText ==
    [fence |-> "none", body |-> "empty", value |-> NullCandidate]

GarbageTexts ==
    [fence : Fences, body : {"garbage"}, value : {NullCandidate}]

JsonTexts ==
    [fence : Fences, body : {"json"}, value : Candidates]

Texts ==
    {EmptyText} \cup GarbageTexts \cup JsonTexts

\* JSON.stringify(toolInput)
Stringify(cand) ==
    [fence |-> "none", body |-> "json", value |-> cand]

\* The characters of a text, in tokens: "fence" is a run of three backticks,
\* "json" the word json, "ws" a run of whitespace, "body" the text's body
\* (a JSON value or something that is none), "c" any other characters.
\* Every way a body can be wrapped:
FenceShapes ==
    {"none", "json", "plain", "json_tight", "plain_tight", "json_padded",
     "upper", "prefixed", "unclosed", "trailing"}

BodyTokens(body) ==
    IF body = "empty" THEN <<>> ELSE IF body = "json" THEN <<"body">> ELSE <<"c">>

\* the tokens of a body wrapped in a fence shape
Render(shape, body) ==
    LET b == BodyTokens(body)
    IN  IF shape = "json" THEN <<"fence", "json", "ws">> \o b \o <<"ws", "fence">>
        ELSE IF shape = "plain" THEN <<"fence", "ws">> \o b \o <<"ws", "fence">>
        ELSE IF shape = "json_tight" THEN <<"fence", "json">> \o b \o <<"fence">>
        ELSE IF shape = "plain_tight" THEN <<"fence">> \o b \o <<"fence">>
        ELSE IF shape = "json_padded"
        THEN <<"ws", "fence", "json", "ws">> \o b \o <<"ws", "fence", "ws">>
        ELSE IF shape = "upper" THEN <<"fence", "c", "ws">> \o b \o <<"ws", "fence">>
        ELSE IF shape = "prefixed"
        THEN <<"c", "ws", "fence", "json", "ws">> \o b \o <<"ws", "fence">>
        ELSE IF shape = "unclosed" THEN <<"fence", "json", "ws">> \o b
        ELSE IF shape = "trailing"
        THEN <<"fence", "json", "ws">> \o b \o <<"ws", "fence", "ws", "c">>
        ELSE b

RECURSIVE DropLeadingWs(_)
\* the tokens without the whitespace they start with
DropLeadingWs(t) ==
    IF t # <<>> /\ Head(t) = "ws" THEN DropLeadingWs(Tail(t)) ELSE t

RECURSIVE DropTrailingWs(_)
DropTrailingWs(t) ==
    IF t # <<>> /\ t[Len(t)] = "ws"
    THEN DropTrailingWs(SubSeq(t, 1, Len(t) - 1))
    ELSE t

\* String.prototype.trim
Trim(t) ==
    DropTrailingWs(DropLeadingWs(t))

StartsWith(t, prefix) ==
    Len(t) >= Len(prefix) /\ SubSeq(t, 1, Len(prefix)) = prefix

\* the second replace of either branch: the closing fence, with the
\* whitespace after it, at the end of the text
RemoveClosingFence(t) ==
    LET u == DropTrailingWs(t)
    IN  IF u # <<>> /\ u[Len(u)] = "fence"
        THEN SubSeq(u, 1, Len(u) - 1)
        ELSE t

CleanedContent_KeepsClosingFence(t) ==
    LET c == Trim(t)
    IN  IF StartsWith(c, <<"fence", "json">>)
        THEN DropLeadingWs(SubSeq(c, 3, Len(c)))
        ELSE IF StartsWith(c, <<"fence">>)
        THEN DropLeadingWs(SubSeq(c, 2, Len(c)))
        ELSE c

\* cleanedContent of requestAIResponse, on tokens
CleanedContent(t) ==
    LET c == Trim(t)
    IN  IF StartsWith(c, <<"fence", "json">>)
        THEN RemoveClosingFence(DropLeadingWs(SubSeq(c, 3, Len(c))))
        ELSE IF StartsWith(c, <<"fence">>)
        THEN RemoveClosingFence(DropLeadingWs(SubSeq(c, 2, Len(c))))
        ELSE c

\* the tokens are the body alone, whitespace apart (JSON.parse skips the
\* whitespace around a value)
IsBodyAlone(t, body) ==
    SelectSeq(t, LAMBDA x : x # "ws") = BodyTokens(body)

\* the fence removal of requestAIResponse: a text whose cleaned content is
\* its body alone becomes that body; any other text keeps what surrounds it
StripFence(text) ==
    IF IsBodyAlone(CleanedContent(Render(text.fence, text.body)), text.body)
    THEN [text EXCEPT !.fence = "none"]
    ELSE text

\* JSON.parse: [threw, value]
JsonParse(text) ==
    IF text.body = "json" /\ text.fence = "none"
    THEN [threw |-> FALSE, value |-> text.value]
    ELSE [threw |-> TRUE, value |-> NullCandidate]

(***************************************************************************)
(* Requests: what an adapter puts on the wire                              *)
(***************************************************************************)
ToolNames ==
    {"generate_xhs_content", "generate_xhs_comment"}

\* the fields a declared tool requires of its input
ToolRequired(name) ==
    IF name = "generate_xhs_content" THEN {"title", "content"}
    ELSE IF name = "generate_xhs_comment" THEN {"content"}
    ELSE {}

\* the tool both tool-forcing adapters pin: targetToolName / tool_choice.name
TargetToolName(msgSource) ==
    IF msgSource = "comment" THEN "generate_xhs_comment"
    ELSE "generate_xhs_content"

\* system / instructions text chosen by each adapter
Instructions(adapter, b, msgSource) ==
    IF adapter = "claude"
    THEN IF b = "legacy" THEN "postSystemPrompt"
         ELSE IF msgSource = "comment" THEN "commentSystemPrompt"
         ELSE "postSystemPrompt"
    ELSE IF adapter = "chatgpt"
    THEN IF msgSource = "post" THEN "postSystemPrompt" ELSE "commentSystemPrompt"
    ELSE IF adapter = "qwen"
    THEN IF msgSource = "comment" THEN "commentInstructions"
         ELSE "postInstructions"
    ELSE "none"

\* the fields an instruction text asks the model for: the post texts ask for
\* a title and a content, the comment texts for a comment alone
InstructionsAskFor(instructions) ==
    IF instructions \in {"postSystemPrompt", "postInstructions"}
    THEN {"title", "content"}
    ELSE IF instructions \in {"commentSystemPrompt", "commentInstructions"}
    THEN {"content"}
    ELSE {}

\* the user message the qwen adapter puts in front of the messages
InstructionTurn(msgSource) ==
    [idx |-> 0, role |-> "user",
     builder |-> IF msgSource = "comment" THEN "commentInstructions"
                 ELSE "postInstructions"]

\* the array an adapter was given, once the adapter has reached its request:
\* messages.unshift(...) of the qwen adapter changes it in place
ArgumentAfterCall(adapter, msgSource, apiMessages) ==
    IF adapter = "qwen"
    THEN <<InstructionTurn(msgSource)>> \o apiMessages
    ELSE apiMessages

\* the request an adapter issues through client for msgSource and the
\* messages it was given; the qwen adapter sends the array with its
\* instructions in front, the legacy OpenAI adapter attaches a JSON schema
\* (for the models that support one)
BuildRequest(b, adapter, client, msgSource, turns) ==
    [adapter      |-> adapter,
     client       |-> client,
     msgSource    |-> msgSource,
     instructions |-> Instructions(adapter, b, msgSource),
     tools        |-> IF adapter \in {"claude", "chatgpt"} THEN ToolNames ELSE {},
     toolChoice   |-> IF adapter \in {"claude", "chatgpt"}
                      THEN TargetToolName(msgSource) ELSE "none",
     format       |-> IF adapter = "qwen" THEN "json_object"
                      ELSE IF adapter = "openai_legacy"
                      THEN IF msgSource = "post" THEN "xhs_content"
                           ELSE "xhs_comment"
                      ELSE "none",
     turns        |-> ArgumentAfterCall(adapter, msgSource, turns)]

(***************************************************************************)
(* Provider replies                                                        *)
(***************************************************************************)
Markers ==
    {"401", "429", "403", "quota"}

DefaultReply ==
    [shape |-> "none", isError |-> FALSE, has |-> {}, cand |-> NullCandidate,
     text |-> EmptyText, fname |-> "none"]

\* the SDK call rejects: with an Error whose message contains some of the
\* markers, or with a value that is no Error (whatever it contains)
ErrorRepliesWith(markerSets) ==
    {[DefaultReply EXCEPT !.shape = "error", !.isError = e, !.has = h] :
        e \in BOOLEAN, h \in markerSets}

ErrorReplies ==
    ErrorRepliesWith(SUBSET Markers)

\* Anthropic messages.create: no content blocks, a tool_use block, a text
\* block only, or blocks of neither type
ClaudeReplies(errors, texts, objects) ==
    errors
    \cup {[DefaultReply EXCEPT !.shape = "empty"],
          [DefaultReply EXCEPT !.shape = "other"]}
    \cup {[DefaultReply EXCEPT !.shape = "tool_use", !.cand = c] :
            c \in objects}
    \cup {[DefaultReply EXCEPT !.shape = "text", !.text = t] : t \in texts}

\* OpenAI responses.create: empty output, a function_call item (its name and
\* its arguments string, possibly empty), or output without a function call
ChatgptReplies(errors, texts) ==
    errors
    \cup {[DefaultReply EXCEPT !.shape = "empty"],
          [DefaultReply EXCEPT !.shape = "message"]}
    \cup {[DefaultReply EXCEPT !.shape = "function_call", !.fname = f, !.text = t] :
            f \in ToolNames, t \in texts}

\* chat.completions.create: no choice, or a choice whose message content is
\* a text (possibly empty)
CompletionReplies(errors, texts) ==
    errors
    \cup {[DefaultReply EXCEPT !.shape = "nochoice"]}
    \cup {[DefaultReply EXCEPT !.shape = "content", !.text = t] : t \in texts}

AllClaudeReplies ==
    ClaudeReplies(ErrorReplies, Texts, ObjectCandidates)

AllChatgptReplies ==
    ChatgptReplies(ErrorReplies, Texts)

AllCompletionReplies ==
    CompletionReplies(ErrorReplies, Texts)

\* every reply an adapter's provider can give
RepliesOf(adapter) ==
    IF adapter = "claude" THEN AllClaudeReplies
    ELSE IF adapter = "chatgpt" THEN AllChatgptReplies
    ELSE AllCompletionReplies

\* the replies tried on the direct calls of the service protocol: every
\* shape, with one error and one candidate (the requests of the chat
\* interface and the settling of a single call are tried on every reply)
SampleObjects ==
    {[kind |-> "object", title |-> StringField(SchemaTitleMax),
      content |-> StringField(SchemaContentMax)]}

SampleTexts ==
    [fence : {"none"}, body : {"json"}, value : SampleObjects]

SampleErrors ==
    {e \in ErrorRepliesWith({{"429"}}) : e.isError}

SampleClaudeReplies ==
    ClaudeReplies(SampleErrors, SampleTexts, SampleObjects)

SampleChatgptReplies ==
    ChatgptReplies(SampleErrors, SampleTexts)

SampleCompletionReplies ==
    CompletionReplies(SampleErrors, SampleTexts)

SampleRepliesOf(adapter) ==
    IF adapter = "claude" THEN SampleClaudeReplies
    ELSE IF adapter = "chatgpt" THEN SampleChatgptReplies
    ELSE SampleCompletionReplies

(***************************************************************************)
(* Outcomes of chatCompletion                                              *)
(***************************************************************************)
Returned(text) ==
    [ok |-> TRUE, content |-> text, kind |-> "none", label |-> "none",
     cause |-> "none"]

Threw(kind, label, cause) ==
    [ok |-> FALSE, content |-> EmptyText, kind |-> kind, label |-> label,
     cause |-> cause]

NoResult ==
    [ok |-> FALSE, content |-> EmptyText, kind |-> "none", label |-> "none",
     cause |-> "none"]

\* an error caught by an adapter: an Error with the markers its message
\* contains, or a non-Error value
CaughtError(isError, has, cause) ==
    [isError |-> isError, has |-> has, cause |-> cause]

\* handleAPIError(error, provider)
HandleAPIError_QuotaFirst(error, label) ==
    IF error.isError /\ "quota" \in error.has
    THEN Threw("QuotaExceeded", label, error.cause)
    ELSE IF error.isError /\ "401" \in error.has
    THEN Threw("AuthInvalid", label, error.cause)
    ELSE IF error.isError /\ "429" \in error.has
    THEN Threw("RateLimited", label, error.cause)
    ELSE IF error.isError /\ "403" \in error.has
    THEN Threw("PermissionDenied", label, error.cause)
    ELSE Threw("RequestFailed", label,
               IF error.isError THEN error.cause ELSE "Unknown error")

HandleAPIError(error, label) ==
    IF error.isError /\ "401" \in error.has
    THEN Threw("AuthInvalid", label, error.cause)
    ELSE IF error.isError /\ "429" \in error.has
    THEN Threw("RateLimited", label, error.cause)
    ELSE IF error.isError /\ "403" \in error.has
    THEN Threw("PermissionDenied", label, error.cause)
    ELSE IF error.isError /\ "quota" \in error.has
    THEN Threw("QuotaExceeded", label, error.cause)
    ELSE Threw("RequestFailed", label,
               IF error.isError THEN error.cause ELSE "Unknown error")

\* the label each adapter passes to handleAPIError
ErrorLabel(adapter) ==
    IF adapter = "claude" THEN "Claude" ELSE "OpenAI"

\* an Error the adapter itself throws inside its try block
OwnError(cause) ==
    CaughtError(TRUE, {}, cause)

\* claudeChatCompletion after messages.create settled with reply r
ClaudeSettle(r, msgSource) ==
    IF r.shape = "error"
    THEN HandleAPIError(CaughtError(r.isError, r.has, "provider"), "Claude")
    ELSE IF r.shape = "empty"
    THEN HandleAPIError(OwnError("Invalid response from Claude API"), "Claude")
    ELSE IF r.shape = "tool_use"
    THEN IF ValidateContentResponse(r.cand, msgSource)
         THEN Returned(Stringify(r.cand))
         ELSE HandleAPIError(OwnError("Tool input validation failed"), "Claude")
    ELSE IF r.shape = "text"
    THEN Returned(r.text)
    ELSE HandleAPIError(OwnError("No text or tool_use content"), "Claude")

\* openaiChatCompletion of part_008 after responses.create settled
ChatgptSettle(r, msgSource) ==
    IF r.shape = "error"
    THEN HandleAPIError(CaughtError(r.isError, r.has, "provider"), "OpenAI")
    ELSE IF r.shape = "empty"
    THEN HandleAPIError(OwnError("Invalid response from chatgpt API"), "OpenAI")
    ELSE IF /\ r.shape = "function_call"
            /\ r.fname = TargetToolName(msgSource)
            /\ r.text.body # "empty"
    THEN LET p == JsonParse(r.text)
             toolInput == IF p.threw THEN EmptyObject ELSE p.value
         IN  IF ValidateContentResponse(toolInput, msgSource)
             THEN Returned(Stringify(toolInput))
             ELSE HandleAPIError(OwnError("Tool input validation failed"),
                                 "OpenAI")
    ELSE Returned(EmptyText)

\* qwenChatCompletion after chat.completions.create settled
QwenSettle(r, msgSource) ==
    IF r.shape = "error"
    THEN HandleAPIError(CaughtError(r.isError, r.has, "provider"), "OpenAI")
    ELSE IF r.shape = "nochoice"
    THEN HandleAPIError(OwnError("TypeError"), "OpenAI")
    ELSE Returned(r.text)

\* openaiChatCompletion of AIService.ts after chat.completions.create settled
LegacyOpenaiSettle(r, msgSource) ==
    IF r.shape = "error"
    THEN HandleAPIError(CaughtError(r.isError, r.has, "provider"), "OpenAI")
    ELSE IF r.shape = "nochoice"
    THEN HandleAPIError(OwnError("Invalid response from OpenAI API"), "OpenAI")
    ELSE Returned(r.text)

Settle(adapter, r, msgSource) ==
    IF adapter = "claude" THEN ClaudeSettle(r, msgSource)
    ELSE IF adapter = "chatgpt" THEN ChatgptSettle(r, msgSource)
    ELSE IF adapter = "qwen" THEN QwenSettle(r, msgSource)
    ELSE LegacyOpenaiSettle(r, msgSource)

PreflightError_NoClientCheck(b, s) ==
    IF Adapter(b, s) = "unsupported"
    THEN Threw("Unsupported", "none", "Unsupported AI provider")
    ELSE NoResult

\* chatCompletion up to its first await: the error it throws before any
\* request, or "none" when the adapter goes on to issue its request
PreflightError(b, s) ==
    LET a == Adapter(b, s)
    IN  IF a = "unsupported"
        THEN Threw("Unsupported", "none", "Unsupported AI provider")
        ELSE IF AdapterClient(s, a) = NoClient
        THEN Threw("NotInitialized", ErrorLabel(a),
                   "client not initialized. Please check your API key.")
        ELSE NoResult

(***************************************************************************)
(* Chat messages and buildChatMessages                                     *)
(***************************************************************************)
Senders ==
    {"user", "assistant", "system"}

Message(type, sender, source, title, content, note) ==
    [type |-> type, sender |-> sender, messageSource |-> source,
     title |-> title, content |-> content, note |-> note, raw |-> EmptyText]

\* initialMessages
IntroMessage ==
    Message("introduction", "assistant", "post", AbsentField, AbsentField, "none")

UserMessage(msgSource) ==
    Message("user", "user", msgSource, AbsentField, AbsentField, "none")

\* the result message of requestAIResponse: generatedPostData {title || '',
\* content} for post, generatedCommentData {content} otherwise
ResultMessage(parsed, msgSource) ==
    IF msgSource = "post"
    THEN Message("result", "assistant", msgSource,
                 IF Truthy(parsed.title) THEN parsed.title ELSE StringField(0),
                 parsed.content, "generatedPostData")
    ELSE Message("result", "assistant", msgSource, AbsentField, parsed.content,
                 "generatedCommentData")

\* the assistant-style fallback that quotes the raw reply
FallbackMessage ==
    Message("ai", "assistant", "none", AbsentField, AbsentField, "formatError")

\* the fallback for a reply text: its content ends with response.content
FallbackMessageOf(text) ==
    [FallbackMessage EXCEPT !.raw = text]

\* the system-style message that reports a failed request
ErrorMessage(kind) ==
    Message("ai", "system", "none", AbsentField, AbsentField, kind)

Keep_LastTwo(data, i) ==
    LET totalNumMsgs == Len(data)
        index == i - 1
    IN  IF /\ totalNumMsgs > WindowThreshold
           /\ index # 0
           /\ index # 1
           /\ index # totalNumMsgs - 1
           /\ index # totalNumMsgs - 2
        THEN FALSE
        ELSE data[i].sender = "user" \/ data[i].sender = "assistant"

Keep_WindowFromSix(data, i) ==
    LET totalNumMsgs == Len(data)
        index == i - 1
    IN  IF /\ totalNumMsgs >= WindowThreshold
           /\ index # 0
           /\ index # 1
           /\ index # totalNumMsgs - 1
           /\ index # totalNumMsgs - 2
           /\ index # totalNumMsgs - 3
        THEN FALSE
        ELSE data[i].sender = "user" \/ data[i].sender = "assistant"

Keep_SystemToo(data, i) ==
    LET totalNumMsgs == Len(data)
        index == i - 1
    IN  IF /\ totalNumMsgs > WindowThreshold
           /\ index # 0
           /\ index # 1
           /\ index # totalNumMsgs - 1
           /\ index # totalNumMsgs - 2
           /\ index # totalNumMsgs - 3
        THEN FALSE
        ELSE TRUE

\* the filter callback of the builders, for the element at JavaScript index
\* i - 1 of data (i counts from 1)
Keep(data, i) ==
    LET totalNumMsgs == Len(data)
        index == i - 1
    IN  IF /\ totalNumMsgs > WindowThreshold
           /\ index # 0
           /\ index # 1
           /\ index # totalNumMsgs - 1
           /\ index # totalNumMsgs - 2
           /\ index # totalNumMsgs - 3
        THEN FALSE
        ELSE data[i].sender = "user" \/ data[i].sender = "assistant"

\* the builder buildChatMessages selects for a provider
BuilderFor(b, provider) ==
    IF b = "legacy" THEN "claude"
    ELSE IF provider = "claude" THEN "claude"
    ELSE IF provider = "qwen" THEN "qwen"
    ELSE "chatgpt"

RECURSIVE FilterFrom(_, _, _)
\* data.filter(...) then forEach: the API messages built from the elements
\* kept, from position i on; idx is the element's position in data
FilterFrom(data, i, builder) ==
    IF i > Len(data)
    THEN <<>>
    ELSE (IF Keep(data, i)
          THEN <<[idx |-> i,
                  role |-> IF data[i].sender = "user" THEN "user"
                           ELSE "assistant",
                  builder |-> builder]>>
          ELSE <<>>)
         \o FilterFrom(data, i + 1, builder)

\* buildChatMessages(data, aiConfig)
BuildChatMessages(b, data, provider) ==
    FilterFrom(data, 1, BuilderFor(b, provider))

\* value of sent before buildChatMessages has run
NotBuilt ==
    <<[idx |-> 0, role |-> "none", builder |-> "none"]>>

\* positions of data that a list of API messages carries, in order
Positions(apiMessages) ==
    [k \in 1..Len(apiMessages) |-> apiMessages[k].idx]

(***************************************************************************)
(* State                                                                   *)
(***************************************************************************)
\* the settings the chat interface can hold
ChatConfigs ==
    Configs

\* defaultAIConfig
DefaultAIConfig ==
    [provider |-> "chatgpt", apiKey |-> ""]

NoDiag ==
    [outcome |-> "none", msgSource |-> "none", parsed |-> NullCandidate,
     errors |-> {}]

\* what the caller of the service saw last: the operation, the key it ran
\* under, whether a request was issued, the provider's reply to it, and the
\* outcome
NoOp ==
    [op |-> "none", key |-> "", msgSource |-> "none", issued |-> FALSE,
     reply |-> DefaultReply, out |-> NoResult]

\* a request in flight: who awaits it, the configuration the service held
\* when it was issued, the request on the wire, and how many times the
\* adapter has issued it
Call(id, origin, cfg, req) ==
    [id |-> id, origin |-> origin, config |-> cfg, req |-> req, attempt |-> 1]

\* a number that tells the requests in flight apart
FreeId(calls) ==
    CHOOSE i \in 1..(Cardinality(calls) + 1) : \A c \in calls : c.id # i

Init ==
    /\ build \in Builds
    /\ svc = NoService
    /\ inflight = {}
    /\ lastResult = NoOp
    /\ aiConfig = DefaultAIConfig
    /\ messages = <<IntroMessage>>
    /\ isLoading = FALSE
    /\ lastDiag = NoDiag
    /\ history = <<>>
    /\ sent = NotBuilt
    /\ ports = {}

chatVars ==
    <<aiConfig, messages, isLoading, lastDiag>>

windowVars ==
    <<history, sent>>

(***************************************************************************)
(* Direct use of an AIService instance                                     *)
(***************************************************************************)
\* svc = new AIService(cfg); when the constructor throws, the caller keeps
\* whatever instance it had
Construct(cfg) ==
    LET r == NewAIService(build, cfg)
    IN  /\ svc' = IF r.threw THEN svc ELSE r.s
        /\ lastResult' = [op |-> "construct", key |-> cfg.apiKey,
                          msgSource |-> "none",
                          issued |-> FALSE, reply |-> DefaultReply,
                          out |-> IF r.threw THEN Threw(r.err, "none", r.err)
                                  ELSE NoResult]
        /\ UNCHANGED <<ports, build, inflight, chatVars, windowVars>>

\* svc.updateConfig(cfg)
UpdateConfig(cfg) ==
    /\ svc.exists
    /\ svc' = UpdateConfigResult(build, svc, cfg)
    /\ lastResult' = [op |-> "updateConfig", key |-> cfg.apiKey,
                      msgSource |-> "none",
                      issued |-> FALSE, reply |-> DefaultReply,
                      out |-> NoResult]
    /\ UNCHANGED <<ports, build, inflight, chatVars, windowVars>>

\* svc.chatCompletion(messages, msgSource) up to its first await; messages
\* is the array the caller holds in sent, or a fresh empty array when the
\* caller holds none
ChatCompletion(msgSource) ==
    /\ svc.exists
    /\ LET pre == PreflightError(build, svc)
           a == Adapter(build, svc)
           id == FreeId(inflight)
           apiMessages == IF sent = NotBuilt THEN <<>> ELSE sent
       IN  IF pre # NoResult
           THEN /\ lastResult' = [op |-> "chatCompletion",
                                  key |-> svc.config.apiKey,
                                  msgSource |-> "none",
                                  issued |-> FALSE, reply |-> DefaultReply,
                                  out |-> pre]
                /\ UNCHANGED <<inflight, sent>>
           ELSE /\ Cardinality(inflight) < MaxInFlight
                /\ Len(apiMessages) < MaxTurns
                /\ inflight' = inflight \cup
                                 {Call(id, "api", svc.config,
                                       BuildRequest(build, a, AdapterClient(svc, a),
                                                    msgSource, apiMessages))}
                /\ sent' = IF sent = NotBuilt THEN sent
                           ELSE ArgumentAfterCall(a, msgSource, sent)
                /\ UNCHANGED lastResult
    /\ UNCHANGED <<ports, build, svc, chatVars, history>>

ApiCallSettles_ReadsCurrentService(c, reply) ==
    /\ c \in inflight
    /\ c.origin = "api"
    /\ reply \in RepliesOf(c.req.adapter)
    /\ inflight' = inflight \ {c}
    /\ lastResult' = [op |-> "chatCompletion", key |-> svc.config.apiKey,
                      msgSource |-> c.req.msgSource,
                      issued |-> TRUE, reply |-> reply,
                      out |-> IF AdapterClient(svc, Adapter(build, svc)) = c.req.client
                              THEN Settle(c.req.adapter, reply, c.req.msgSource)
                              ELSE Threw("unknown", "none", "client replaced")]
    /\ UNCHANGED <<ports, build, svc, chatVars, windowVars>>

\* the provider answers a direct call: the adapter settles it
ApiCallSettles(c, reply) ==
    /\ c \in inflight
    /\ c.origin = "api"
    /\ reply \in RepliesOf(c.req.adapter)
    /\ inflight' = inflight \ {c}
    /\ lastResult' = [op |-> "chatCompletion", key |-> c.config.apiKey,
                      msgSource |-> c.req.msgSource,
                      issued |-> TRUE, reply |-> reply,
                      out |-> Settle(c.req.adapter, reply, c.req.msgSource)]
    /\ UNCHANGED <<ports, build, svc, chatVars, windowVars>>

(***************************************************************************)
(* The chat interface                                                      *)
(***************************************************************************)
\* aiConfigReducer 'set'
SetAIConfig(cfg) ==
    /\ build = "multi"
    /\ cfg \in ChatConfigs
    /\ aiConfig' = cfg
    /\ UNCHANGED <<ports, build, svc, inflight, lastResult, messages, isLoading,
                   lastDiag, windowVars>>

\* msgSource of handleSendMessage: the one the input names, else the last
\* message's, else 'post'
SendSource(named, msgs) ==
    IF named # "none" THEN named
    ELSE IF Len(msgs) > 0 /\ msgs[Len(msgs)].messageSource # "none"
    THEN msgs[Len(msgs)].messageSource
    ELSE "post"

\* messages.filter(msg => msg.type !== 'introduction')
InfoMessages(msgs) ==
    SelectSeq(msgs, LAMBDA m : m.type # "introduction")

\* lastMsg.messageSource || 'post'
RequestSource(msgs) ==
    IF msgs[Len(msgs)].messageSource # "none"
    THEN msgs[Len(msgs)].messageSource
    ELSE "post"

\* requestAIResponse once chatCompletion returned or threw: the message it
\* dispatches and what it found.  Result: [msg, diag]
HandleOutcome(out, msgSource) ==
    IF ~out.ok
    THEN [msg |-> ErrorMessage(out.kind),
          diag |-> [NoDiag EXCEPT !.outcome = "requestError",
                                  !.msgSource = msgSource]]
    ELSE LET p == JsonParse(StripFence(out.content))
         IN  IF p.threw
             THEN [msg |-> FallbackMessageOf(out.content),
                   diag |-> [NoDiag EXCEPT !.outcome = "malformed",
                                           !.msgSource = msgSource]]
             ELSE IF ValidateContentResponse(p.value, msgSource)
             THEN [msg |-> ResultMessage(p.value, msgSource),
                   diag |-> [outcome |-> "result", msgSource |-> msgSource,
                             parsed |-> p.value, errors |-> {}]]
             ELSE [msg |-> FallbackMessageOf(out.content),
                   diag |-> [outcome |-> "invalid", msgSource |-> msgSource,
                             parsed |-> p.value,
                             errors |-> Diagnostics(p.value, msgSource)]]

\* handleSendMessage(userMessageData), and requestAIResponse up to the await
\* of chatCompletion
HandleSendMessageWithin(named, limit) ==
    /\ build = "multi"
    /\ ~isLoading
    /\ Len(messages) + 2 <= limit
    /\ LET msgSource == SendSource(named, messages)
           updated == Append(messages, UserMessage(msgSource))
           r == NewAIService(build, aiConfig)
           src == RequestSource(updated)
           chatMessages == BuildChatMessages(build, InfoMessages(updated),
                                             aiConfig.provider)
           pre == IF r.threw THEN Threw(r.err, "none", r.err)
                  ELSE PreflightError(build, r.s)
           a == Adapter(build, r.s)
           id == FreeId(inflight)
       IN  IF pre # NoResult
           THEN /\ messages' = Append(updated, HandleOutcome(pre, src).msg)
                /\ lastDiag' = HandleOutcome(pre, src).diag
                /\ isLoading' = FALSE
                /\ UNCHANGED inflight
           ELSE /\ Cardinality(inflight) < MaxInFlight
                /\ messages' = updated
                /\ isLoading' = TRUE
                /\ inflight' = inflight \cup
                                 {Call(id, "chat", aiConfig,
                                       BuildRequest(build, a, AdapterClient(r.s, a),
                                                    src, chatMessages))}
                /\ UNCHANGED lastDiag
    /\ UNCHANGED <<ports, build, svc, lastResult, aiConfig, windowVars>>

\* handleSendMessage in a conversation of at most MaxMsgs messages
HandleSendMessage(named) ==
    HandleSendMessageWithin(named, MaxMsgs)

ChatCallSettles_RetryRateLimited(c, reply) ==
    /\ c \in inflight
    /\ c.origin = "chat"
    /\ reply \in RepliesOf(c.req.adapter)
    /\ IF reply.shape = "error" /\ "429" \in reply.has /\ c.attempt = 1
       THEN /\ inflight' = (inflight \ {c}) \cup {[c EXCEPT !.attempt = 2]}
            /\ UNCHANGED <<messages, lastDiag, isLoading>>
       ELSE /\ LET h == HandleOutcome(Settle(c.req.adapter, reply,
                                             c.req.msgSource),
                                      c.req.msgSource)
               IN  /\ messages' = Append(messages, h.msg)
                   /\ lastDiag' = h.diag
            /\ isLoading' = FALSE
            /\ inflight' = inflight \ {c}
    /\ UNCHANGED <<ports, build, svc, lastResult, aiConfig, windowVars>>

ChatCallSettles_StaysLoadingOnError(c, reply) ==
    /\ c \in inflight
    /\ c.origin = "chat"
    /\ reply \in RepliesOf(c.req.adapter)
    /\ LET h == HandleOutcome(Settle(c.req.adapter, reply, c.req.msgSource),
                              c.req.msgSource)
       IN  /\ messages' = Append(messages, h.msg)
           /\ lastDiag' = h.diag
    /\ isLoading' = (reply.shape = "error")
    /\ inflight' = inflight \ {c}
    /\ UNCHANGED <<ports, build, svc, lastResult, aiConfig, windowVars>>

\* the provider answers the chat interface's request: the adapter settles
\* it and requestAIResponse runs to its end
ChatCallSettles(c, reply) ==
    /\ c \in inflight
    /\ c.origin = "chat"
    /\ reply \in RepliesOf(c.req.adapter)
    /\ LET h == HandleOutcome(Settle(c.req.adapter, reply, c.req.msgSource),
                              c.req.msgSource)
       IN  /\ messages' = Append(messages, h.msg)
           /\ lastDiag' = h.diag
    /\ isLoading' = FALSE
    /\ inflight' = inflight \ {c}
    /\ UNCHANGED <<ports, build, svc, lastResult, aiConfig, windowVars>>

(***************************************************************************)
(* Windowing as a function of its input                                    *)
(***************************************************************************)
\* a chat message of each sender
MessageOf(sender) ==
    IF sender = "user" THEN UserMessage("post")
    ELSE IF sender = "assistant" THEN FallbackMessage
    ELSE ErrorMessage("RequestFailed")

RECURSIVE SeqsUpTo(_, _)
SeqsUpTo(S, n) ==
    IF n = 0 THEN {<<>>}
    ELSE LET shorter == SeqsUpTo(S, n - 1)
         IN  shorter \cup {Append(q, x) : q \in shorter, x \in S}

Histories ==
    {[k \in 1..Len(q) |-> MessageOf(q[k])] : q \in SeqsUpTo(Senders, MaxHist)}

InitWindow ==
    /\ build \in Builds
    /\ svc = NoService
    /\ inflight = {}
    /\ lastResult = NoOp
    /\ aiConfig \in {c \in ChatConfigs : c.apiKey = "k1"}
    /\ messages = <<IntroMessage>>
    /\ isLoading = FALSE
    /\ lastDiag = NoDiag
    /\ history \in Histories
    /\ sent = NotBuilt
    /\ ports = {}

\* sent = buildChatMessages(history, aiConfig)
ApplyBuildChatMessages ==
    /\ sent = NotBuilt
    /\ sent' = BuildChatMessages(build, history, aiConfig.provider)
    /\ UNCHANGED <<ports, build, svc, inflight, lastResult, chatVars, history>>

(***************************************************************************)
(* One call of chatCompletion as a function of the provider's reply        *)
(***************************************************************************)
\* a service constructed with a key, and one chatCompletion call that has
\* issued its request
InitSettle ==
    /\ build \in Builds
    /\ svc \in {NewAIService(build, cfg).s :
                  cfg \in {c \in Configs : c.apiKey # ""}}
    /\ PreflightError(build, svc) = NoResult
    /\ inflight \in
          {{Call(1, "api", svc.config,
                 BuildRequest(build, Adapter(build, svc),
                              AdapterClient(svc, Adapter(build, svc)),
                              m, <<>>))} : m \in MessageSources}
    /\ lastResult = NoOp
    /\ aiConfig = DefaultAIConfig
    /\ messages = <<IntroMessage>>
    /\ isLoading = FALSE
    /\ lastDiag = NoDiag
    /\ history = <<>>
    /\ sent = NotBuilt
    /\ ports = {}

(***************************************************************************)
(* Calls of chatCompletion on a message array the caller keeps             *)
(***************************************************************************)
\* a service constructed with a key, and a caller that holds the array
\* buildChatMessages returned for a conversation of at most one turn
InitRequest ==
    /\ build \in Builds
    /\ svc \in {NewAIService(build, cfg).s :
                  cfg \in {c \in Configs : c.apiKey = "k1"}}
    /\ inflight = {}
    /\ lastResult = NoOp
    /\ aiConfig = DefaultAIConfig
    /\ messages = <<IntroMessage>>
    /\ isLoading = FALSE
    /\ lastDiag = NoDiag
    /\ history \in {<<>>, <<UserMessage("post")>>}
    /\ sent = BuildChatMessages(build, history, svc.config.provider)
    /\ ports = {}

(***************************************************************************)
(* The extraction of requestAIResponse as a function of the reply's text   *)
(***************************************************************************)
\* the texts a reply can carry: a body in any of the fence shapes
ShapedTexts ==
    [fence : FenceShapes, body : {"json"}, value : Candidates]
        \cup [fence : FenceShapes, body : {"garbage", "empty"},
              value : {NullCandidate}]

\* chatCompletion has returned a text to requestAIResponse
InitExtract ==
    /\ build = "multi"
    /\ svc = NoService
    /\ inflight = {}
    /\ lastResult \in {[NoOp EXCEPT !.op = "chatCompletion",
                                    !.out = Returned(text)] :
                          text \in ShapedTexts}
    /\ aiConfig = DefaultAIConfig
    /\ messages = <<IntroMessage>>
    /\ isLoading = TRUE
    /\ lastDiag = NoDiag
    /\ history = <<>>
    /\ sent = NotBuilt
    /\ ports = {}

\* cleanedContent = ...; parsedResponse = JSON.parse(cleanedContent)
ExtractReply ==
    /\ lastResult.out.ok
    /\ lastDiag = NoDiag
    /\ LET p == JsonParse(StripFence(lastResult.out.content))
       IN  lastDiag' = [NoDiag EXCEPT
                           !.outcome = IF p.threw THEN "malformed" ELSE "parsed",
                           !.parsed = p.value]
    /\ UNCHANGED <<ports, build, svc, inflight, lastResult, aiConfig, messages,
                   isLoading, windowVars>>

(***************************************************************************)
(* The image parts of the Claude-format builder                            *)
(***************************************************************************)
\* An image string, in tokens: "data:" the scheme, "mime" a media type,
\* ";base64" the encoding mark, "," a comma, "p1"/"p2" runs of payload
\* characters, "https:" another scheme.
ImageStrings ==
    {<<"data:", "mime", ";base64", ",", "p1">>,
     <<"data:", "mime", ";base64", ",", "p2">>,
     <<"data:", "mime", ",", "p1", ",", "p2">>,
     <<"data:", "mime">>,
     <<"p1">>,
     <<"https:", "p1">>,
     <<"https:", "p1", ",", "p2">>}

\* img.indexOf(','): the position of the first comma, 0 when there is none
CommaIndex(img) ==
    IF \E k \in 1..Len(img) : img[k] = ","
    THEN CHOOSE k \in 1..Len(img) :
            img[k] = "," /\ \A j \in 1..(k - 1) : img[j] # ","
    ELSE 0

Base64Data_AfterLastComma(img) ==
    IF StartsWith(img, <<"data:">>) /\ CommaIndex(img) # 0
    THEN LET last == CHOOSE k \in 1..Len(img) :
                        img[k] = "," /\ \A j \in (k + 1)..Len(img) : img[j] # ","
         IN  SubSeq(img, last + 1, Len(img))
    ELSE img

\* base64Data of the image map of buildClaudeChatMessages
Base64Data(img) ==
    IF StartsWith(img, <<"data:">>)
    THEN IF CommaIndex(img) # 0
         THEN SubSeq(img, CommaIndex(img) + 1, Len(img))
         ELSE img
    ELSE img

\* imageObjects = images.map(...)
ImageObjects(images) ==
    [k \in 1..Len(images) |->
        [type |-> "image", media_type |-> "image/jpeg",
         data |-> Base64Data(images[k])]]

TextPart(text) ==
    [type |-> "text", media_type |-> "none", data |-> <<text>>]

\* the content array the forEach body builds for a message that carries
\* images: a user message, or a collected one
ClaudeContent(msg) ==
    IF msg.sender = "user" /\ msg.type = "user"
    THEN ImageObjects(msg.images) \o <<TextPart("content")>>
    ELSE IF msg.type = "collected"
    THEN ImageObjects(msg.images)
            \o <<TextPart("collectedTitle"), TextPart("collectedContent")>>
    ELSE <<TextPart("content")>>

\* buildClaudeChatMessages(data) for messages that carry images
BuildClaudeImageMessages(data) ==
    LET useful == SelectSeq(data, LAMBDA msg : msg.sender \in {"user", "assistant"})
    IN  [k \in 1..Len(useful) |->
            [role |-> IF useful[k].sender = "user" THEN "user" ELSE "assistant",
             content |-> ClaudeContent(useful[k])]]

ImageLists ==
    SeqsUpTo(ImageStrings, MaxImages)

\* the messages that carry images: the user's own, and the collected post
ImageMessages ==
    [sender : {"user"}, type : {"user"}, images : ImageLists]
        \cup [sender : Senders, type : {"collected"}, images : ImageLists]

\* a conversation of one message that carries images, not yet built
InitImages ==
    /\ build \in Builds
    /\ svc = NoService
    /\ inflight = {}
    /\ lastResult = NoOp
    /\ aiConfig = [provider |-> "claude", apiKey |-> "k1"]
    /\ messages = <<IntroMessage>>
    /\ isLoading = FALSE
    /\ lastDiag = NoDiag
    /\ history \in {<<msg>> : msg \in ImageMessages}
    /\ sent = NotBuilt
    /\ ports = {}

\* sent = buildClaudeChatMessages(history)
ApplyBuildClaudeImages ==
    /\ sent = NotBuilt
    /\ sent' = BuildClaudeImageMessages(history)
    /\ UNCHANGED <<ports, build, svc, inflight, lastResult, chatVars, history>>

(***************************************************************************)
(* The chat interface of src/src/components/ChatInterface.tsx              *)
(***************************************************************************)
\* initialMessages: the greeting, an ai message of the assistant
LegacyIntroMessage ==
    Message("ai", "assistant", "none", AbsentField, AbsentField, "greeting")

\* the user's message: no message source in this version
LegacyUserMessage ==
    Message("user", "user", "none", AbsentField, AbsentField, "none")

\* requestAIResponse once chatCompletion returned or threw: validation is
\* validateContentResponse(parsedResponse), whose mode defaults to post, and
\* a message carries no message source
LegacyHandleOutcome(out) ==
    LET h == HandleOutcome(out, "post")
    IN  [h EXCEPT !.msg.messageSource = "none"]

\* the stored configuration is any the settings page can write
InitLegacyChat ==
    /\ build = "legacy"
    /\ svc = NoService
    /\ inflight = {}
    /\ lastResult = NoOp
    /\ aiConfig \in ChatConfigs
    /\ messages = <<LegacyIntroMessage>>
    /\ isLoading = FALSE
    /\ lastDiag = NoDiag
    /\ history = <<>>
    /\ sent = NotBuilt
    /\ ports = {}

\* handleSendMessage(messageContent), and requestAIResponse up to the await
\* of chatCompletion
LegacyHandleSendMessage ==
    /\ build = "legacy"
    /\ ~isLoading
    /\ Len(messages) + 2 <= MaxMsgs
    /\ LET updated == Append(messages, LegacyUserMessage)
           r == NewAIService(build, aiConfig)
           chatMessages == BuildChatMessages(build, updated, aiConfig.provider)
           pre == IF r.threw THEN Threw(r.err, "none", r.err)
                  ELSE PreflightError(build, r.s)
           a == Adapter(build, r.s)
           id == FreeId(inflight)
       IN  IF pre # NoResult
           THEN /\ messages' = Append(updated, LegacyHandleOutcome(pre).msg)
                /\ lastDiag' = LegacyHandleOutcome(pre).diag
                /\ isLoading' = FALSE
                /\ UNCHANGED inflight
           ELSE /\ Cardinality(inflight) < MaxInFlight
                /\ messages' = updated
                /\ isLoading' = TRUE
                /\ inflight' = inflight \cup
                                 {Call(id, "chat", aiConfig,
                                       BuildRequest(build, a, AdapterClient(r.s, a),
                                                    "post", chatMessages))}
                /\ UNCHANGED lastDiag
    /\ UNCHANGED <<ports, build, svc, lastResult, aiConfig, windowVars>>

\* handleClearChat, confirmed: messageDispatch({ type: 'clear' }); the
\* button shows while there are messages, loading or not
HandleClearChat ==
    /\ build = "legacy"
    /\ Len(messages) > 0
    /\ messages' = <<>>
    /\ UNCHANGED <<ports, build, svc, inflight, lastResult, aiConfig, isLoading,
                   lastDiag, windowVars>>

\* the provider answers the chat's request: the rest of requestAIResponse,
\* whose dispatch of 'added' appends to the list the reducer holds by then
LegacyChatCallSettles(c, reply) ==
    /\ build = "legacy"
    /\ c \in inflight
    /\ c.origin = "chat"
    /\ reply \in RepliesOf(c.req.adapter)
    /\ LET h == LegacyHandleOutcome(Settle(c.req.adapter, reply, c.req.msgSource))
       IN  /\ messages' = Append(messages, h.msg)
           /\ lastDiag' = h.diag
    /\ isLoading' = FALSE
    /\ inflight' = inflight \ {c}
    /\ UNCHANGED <<ports, build, svc, lastResult, aiConfig, windowVars>>

(***************************************************************************)
(* Extension messaging: side panel, background listener, content script    *)
(***************************************************************************)
CollectedActions ==
    {"postContentCollected", "commentContentCollected"}

ApplyActions ==
    {"applyContentToPage", "applyCommentToPage"}

\* an action name the background listener has no case for
UnknownAction ==
    "sendToContent"

\* An extension message sent to the background.  target: the chat message
\* an apply click was made on; data: whether title and content are truthy;
\* hasTab: sender.tab?.id; stage: sent, handling (an asynchronous handler
\* is under way) or done; open: the response channel is open; calls: how
\* many times sendResponse was called; answer: what the sender received,
\* "closed" when the channel closed with no response; forwarded and report:
\* the content-script action the handler forwarded to and what the content
\* script answered
Port(id, from, action, target, data, hasTab) ==
    [id |-> id, from |-> from, action |-> action, target |-> target,
     data |-> data, hasTab |-> hasTab, stage |-> "sent", open |-> TRUE,
     calls |-> 0, answer |-> "none", forwarded |-> "none", report |-> "none"]

NoData ==
    [title |-> FALSE, content |-> FALSE]

ApplySuccessMessage ==
    Message("ai", "system", "none", AbsentField, AbsentField, "applySuccess")

ApplyFailureMessage ==
    Message("ai", "system", "none", AbsentField, AbsentField, "applyFailure")

\* the apply clicks made so far: answered ones left a message, the others
\* are under way
AppliesSoFar ==
    Cardinality({i \in 1..Len(messages) :
                    messages[i].note \in {"applySuccess", "applyFailure"}})
        + Cardinality({p \in ports : p.action \in ApplyActions})

\* handleApplyMessage(messageId) up to the await of runtime.sendMessage;
\* i is the position of the message with that id
HandleApplyMessage(i) ==
    /\ build = "multi"
    /\ i \in 1..Len(messages)
    /\ messages[i].type = "result"
    /\ Cardinality(ports) < MaxPorts
    /\ AppliesSoFar < MaxApplies
    /\ LET isPostMessage == messages[i].messageSource = "post"
           actionType == IF isPostMessage THEN "applyContentToPage"
                         ELSE "applyCommentToPage"
           data == [title |-> isPostMessage /\ Truthy(messages[i].title),
                    content |-> Truthy(messages[i].content)]
       IN  ports' = ports \cup
              {Port(FreeId(ports), "panel", actionType, i, data, FALSE)}
    /\ UNCHANGED <<build, svc, inflight, lastResult, chatVars, windowVars>>

\* a content script reports collected content (part_009), or some sender
\* without a tab does
CollectedSent(action, hasTab) ==
    /\ action \in CollectedActions
    /\ Cardinality(ports) < MaxPorts
    /\ ports' = ports \cup
          {Port(FreeId(ports), "page", action, 0, NoData, hasTab)}
    /\ UNCHANGED <<build, svc, inflight, lastResult, chatVars, windowVars>>

\* a sender posts an action the background has no case for
UnknownSent ==
    /\ Cardinality(ports) < MaxPorts
    /\ ports' = ports \cup
          {Port(FreeId(ports), "panel", UnknownAction, 0, NoData, FALSE)}
    /\ UNCHANGED <<build, svc, inflight, lastResult, chatVars, windowVars>>

\* what the sender holds once sendResponse(r) is called on a channel: the
\* response when the channel is open, what it held before otherwise
Delivered(p, r) ==
    IF p.open THEN r ELSE p.answer

\* the onMessage listener of the background, from receipt to its return
BackgroundListener(p) ==
    /\ p \in ports
    /\ p.stage = "sent"
    /\ ports' = (ports \ {p}) \cup
         {IF p.action \in CollectedActions
          THEN IF ~p.hasTab
               THEN [p EXCEPT !.calls = p.calls + 1,
                              !.answer = Delivered(p, "failure"),
                              !.open = FALSE, !.stage = "done"]
               ELSE [p EXCEPT !.open = FALSE, !.answer = "closed",
                              !.stage = "handling"]
          ELSE IF p.action \in ApplyActions
          THEN [p EXCEPT !.open = TRUE, !.stage = "handling"]
          ELSE [p EXCEPT !.calls = p.calls + 1,
                         !.answer = Delivered(p, "error"),
                         !.open = FALSE, !.stage = "done"]}
    /\ UNCHANGED <<build, svc, inflight, lastResult, chatVars, windowVars>>

\* handleContentCollected after the side panel opened and the forward to it
\* settled: then and catch both call sendResponse
ContentCollectedSettles(p, forwarded) ==
    /\ p \in ports
    /\ p.stage = "handling"
    /\ p.action \in CollectedActions
    /\ ports' = (ports \ {p}) \cup
         {[p EXCEPT !.calls = p.calls + 1,
                    !.answer = Delivered(p, IF forwarded THEN "success"
                                            ELSE "failure"),
                    !.stage = "done"]}
    /\ UNCHANGED <<build, svc, inflight, lastResult, chatVars, windowVars>>

\* the outcomes of tabs.query and of tabs.sendMessage
TabResults ==
    {"tab", "noId", "none"}

ContentScriptResults ==
    {"answers", "silent", "rejects"}

\* the onMessage listener of the content script for an apply action: its
\* answer when the page takes the content (applied) or does not
ContentScriptAnswer(action, data, applied) ==
    IF action = "applyEditedContent"
    THEN IF ~data.title /\ ~data.content THEN "failure"
         ELSE IF applied THEN "success" ELSE "failure"
    ELSE IF action = "applyCommentContent"
    THEN IF ~data.content THEN "failure"
         ELSE IF applied THEN "success" ELSE "failure"
    ELSE "failure"

ApplyResponse_SuccessUnlessFailure(report) ==
    IF report = "failure" THEN "failure" ELSE "success"

\* success: response?.success || false
ApplyResponse(report) ==
    IF report = "success" THEN "success" ELSE "failure"

\* handleApplyContentToPage / handleApplyCommentToPage from tabs.query on
HandleApplyToPage(p, tab, cs, applied) ==
    /\ p \in ports
    /\ p.stage = "handling"
    /\ p.action \in ApplyActions
    /\ tab \in TabResults
    /\ cs \in ContentScriptResults
    /\ LET missing == IF p.action = "applyContentToPage"
                      THEN ~p.data.title /\ ~p.data.content
                      ELSE ~p.data.content
           forward == IF p.action = "applyContentToPage"
                      THEN "applyEditedContent" ELSE "applyCommentContent"
           report == IF cs = "answers"
                     THEN ContentScriptAnswer(forward, p.data, applied)
                     ELSE "none"
       IN  ports' = (ports \ {p}) \cup
             {IF tab # "tab" \/ missing
              THEN [p EXCEPT !.calls = p.calls + 1,
                             !.answer = Delivered(p, "failure"),
                             !.stage = "done"]
              ELSE IF cs = "rejects"
              THEN [p EXCEPT !.calls = p.calls + 1,
                             !.answer = Delivered(p, "failure"),
                             !.forwarded = forward,
                             !.stage = "done"]
              ELSE [p EXCEPT !.calls = p.calls + 1,
                             !.answer = Delivered(p, ApplyResponse(report)),
                             !.forwarded = forward, !.report = report,
                             !.stage = "done"]}
    /\ UNCHANGED <<build, svc, inflight, lastResult, chatVars, windowVars>>

\* handleApplyMessage after runtime.sendMessage resolved: one system message
ApplyAnswered(p) ==
    /\ p \in ports
    /\ p.from = "panel"
    /\ p.action \in ApplyActions
    /\ p.stage = "done"
    /\ messages' = Append(messages, IF p.answer = "success"
                                    THEN ApplySuccessMessage
                                    ELSE ApplyFailureMessage)
    /\ ports' = ports \ {p}
    /\ UNCHANGED <<build, svc, inflight, lastResult, aiConfig, isLoading,
                   lastDiag, windowVars>>

\* handleApplyMessage when runtime.sendMessage rejects: the catch block
ApplySendFails(p) ==
    /\ p \in ports
    /\ p.from = "panel"
    /\ p.action \in ApplyActions
    /\ p.stage = "sent"
    /\ messages' = Append(messages, ApplyFailureMessage)
    /\ ports' = ports \ {p}
    /\ UNCHANGED <<build, svc, inflight, lastResult, aiConfig, isLoading,
                   lastDiag, windowVars>>

\* the sender of a message that is no apply click is done with it
SenderDone(p) ==
    /\ p \in ports
    /\ p.action \notin ApplyActions
    /\ p.stage = "done"
    /\ ports' = ports \ {p}
    /\ UNCHANGED <<build, svc, inflight, lastResult, chatVars, windowVars>>

\* the parsed objects behind the results an apply click is made on: title and
\* content empty or at the length the schema allows
AppliedCandidates ==
    {c \in ObjectCandidates :
        /\ c.title \in {AbsentField, StringField(0), StringField(SchemaTitleMax)}
        /\ c.content \in {StringField(0), StringField(SchemaContentMax)}}

\* the conversations of one finished round that ended in a result message
ResultConversations ==
    UNION {{<<IntroMessage, UserMessage(m), ResultMessage(cand, m)>> :
               cand \in {c \in AppliedCandidates : ValidateContentResponse(c, m)}} :
           m \in MessageSources}

\* the chat shows a generated result; no extension message is under way
InitApply ==
    /\ build = "multi"
    /\ svc = NoService
    /\ inflight = {}
    /\ lastResult = NoOp
    /\ aiConfig = DefaultAIConfig
    /\ messages \in ResultConversations
    /\ isLoading = FALSE
    /\ lastDiag = NoDiag
    /\ history = <<>>
    /\ sent = NotBuilt
    /\ ports = {}

(***************************************************************************)
(* A conversation that goes into a second round                            *)
(***************************************************************************)
\* the messages one finished round can end in: a result, the format-error
\* fallback, or a request-error message
ClosingMessages(m) ==
    {ResultMessage(cand, m) :
        cand \in {c \in AppliedCandidates :
                    /\ ValidateContentResponse(c, m)
                    /\ c.content = StringField(SchemaContentMax)
                    /\ c.title \in {AbsentField, StringField(SchemaTitleMax)}}}
        \cup {FallbackMessageOf(t) : t \in {g \in GarbageTexts : g.fence = "none"}}
        \cup {ErrorMessage("RateLimited")}

\* the chat after one round in mode m, with a configuration that has a key
InitTurns ==
    /\ build = "multi"
    /\ svc = NoService
    /\ inflight = {}
    /\ lastResult = NoOp
    /\ aiConfig \in {c \in ChatConfigs : c.apiKey = "k1"}
    /\ messages \in UNION {{<<IntroMessage, UserMessage(m), closing>> :
                               closing \in ClosingMessages(m)} :
                           m \in MessageSources}
    /\ isLoading = FALSE
    /\ lastDiag = NoDiag
    /\ history = <<>>
    /\ sent = NotBuilt
    /\ ports = {}

(***************************************************************************)
(* Specifications                                                          *)
(***************************************************************************)
NextService ==
    \/ \E cfg \in Configs : Construct(cfg)
    \/ \E cfg \in Configs : UpdateConfig(cfg)
    \/ \E m \in MessageSources : ChatCompletion(m)
    \/ \E c \in inflight : \E reply \in SampleRepliesOf(c.req.adapter) :
            ApiCallSettles(c, reply)

NextChat ==
    \/ \E cfg \in ChatConfigs : SetAIConfig(cfg)
    \/ \E named \in MessageSources \cup {"none"} : HandleSendMessage(named)
    \/ \E c \in inflight : \E reply \in RepliesOf(c.req.adapter) : ChatCallSettles(c, reply)

NextSettle ==
    \E c \in inflight : \E reply \in RepliesOf(c.req.adapter) :
        ApiCallSettles(c, reply)

NextRequest ==
    \/ \E m \in MessageSources : ChatCompletion(m)
    \/ \E c \in inflight : \E reply \in SampleRepliesOf(c.req.adapter) :
          ApiCallSettles(c, reply)

NextWindow ==
    ApplyBuildChatMessages

Next ==
    \/ NextService
    \/ NextChat

Spec ==
    Init /\ [][Next]_vars

SpecService ==
    Init /\ [][NextService]_vars

\* the chat interface runs on the AIService of part_008
InitChat ==
    Init /\ build = "multi"

SpecChat ==
    InitChat /\ [][NextChat]_vars

SpecSettle ==
    InitSettle /\ [][NextSettle]_vars

SpecRequest ==
    InitRequest /\ [][NextRequest]_vars

SpecWindow ==
    InitWindow /\ [][NextWindow]_vars

NextExtract ==
    ExtractReply

SpecExtract ==
    InitExtract /\ [][NextExtract]_vars

NextImages ==
    ApplyBuildClaudeImages

SpecImages ==
    InitImages /\ [][NextImages]_vars

NextLegacyChat ==
    \/ LegacyHandleSendMessage
    \/ HandleClearChat
    \/ \E c \in inflight : \E reply \in SampleRepliesOf(c.req.adapter) :
          LegacyChatCallSettles(c, reply)

SpecLegacyChat ==
    InitLegacyChat /\ [][NextLegacyChat]_vars

NextApply ==
    \/ \E i \in 1..Len(messages) : HandleApplyMessage(i)
    \/ \E action \in CollectedActions, hasTab \in BOOLEAN :
          CollectedSent(action, hasTab)
    \/ UnknownSent
    \/ \E p \in ports : BackgroundListener(p)
    \/ \E p \in ports, forwarded \in BOOLEAN : ContentCollectedSettles(p, forwarded)
    \/ \E p \in ports, tab \in TabResults, cs \in ContentScriptResults,
          applied \in BOOLEAN : HandleApplyToPage(p, tab, cs, applied)
    \/ \E p \in ports : ApplyAnswered(p)
    \/ \E p \in ports : ApplySendFails(p)
    \/ \E p \in ports : SenderDone(p)

SpecApply ==
    InitApply /\ [][NextApply]_vars

NextTurns ==
    \/ \E named \in MessageSources \cup {"none"} :
          HandleSendMessageWithin(named, MaxTurnMsgs)
    \/ \E c \in inflight : \E reply \in SampleRepliesOf(c.req.adapter) :
          ChatCallSettles(c, reply)
    \/ \E i \in 1..Len(messages) : HandleApplyMessage(i)
    \/ \E p \in ports : BackgroundListener(p)
    \/ \E p \in ports, tab \in TabResults, cs \in ContentScriptResults,
          applied \in BOOLEAN : HandleApplyToPage(p, tab, cs, applied)
    \/ \E p \in ports : ApplyAnswered(p)
    \/ \E p \in ports : ApplySendFails(p)

SpecTurns ==
    InitTurns /\ [][NextTurns]_vars

(***************************************************************************)
(* Claims                                                                  *)
(***************************************************************************)
\* errors raised by the configuration guards, before any request
ConfigErrorKinds ==
    {"NoApiKey", "NotInitialized", "Unsupported"}

\* C1: while the service holds a configuration with an empty apiKey, every
\* chatCompletion attempt fails with a configuration error raised before any
\* request (in the part_008 build the constructor itself throws), and no
\* request in flight was issued under an empty key.
C1_EmptyKeyFailsFast ==
    /\ (lastResult.op = "chatCompletion" /\ lastResult.key = "")
          => /\ ~lastResult.out.ok
             /\ lastResult.out.kind \in ConfigErrorKinds
             /\ ~lastResult.issued
    /\ (lastResult.op = "construct" /\ lastResult.key = "" /\ build = "multi")
          => lastResult.out.kind = "NoApiKey"
    /\ \A c \in inflight : c.config.apiKey # "" /\ c.req.client.apiKey # ""

C1_Witness ==
    /\ svc.exists
    /\ svc.config.apiKey = ""
    /\ lastResult.op = "chatCompletion"
    /\ lastResult.key = ""
    /\ lastResult.out.kind = "NotInitialized"

\* C2: the service holds at most one provider client; a client it holds
\* was built from the current configuration (the kind its provider asks for,
\* its key, its endpoint); with an empty key it holds none.
C2_ClientMatchesConfig ==
    svc.exists =>
        /\ ~(svc.openai # NoClient /\ svc.anthropic # NoClient)
        /\ svc.anthropic # NoClient =>
              /\ svc.config.provider = "claude"
              /\ svc.anthropic.kind = "anthropic"
              /\ svc.anthropic.apiKey = svc.config.apiKey
        /\ svc.openai # NoClient =>
              /\ svc.config.provider # "claude"
              /\ svc.openai.kind = "openai"
              /\ svc.openai.apiKey = svc.config.apiKey
              /\ (svc.openai.baseURL = DashscopeURL)
                    <=> (build = "multi" /\ svc.config.provider = "qwen")
        /\ svc.config.apiKey = "" =>
              svc.openai = NoClient /\ svc.anthropic = NoClient

C2_Witness ==
    /\ lastResult.op = "updateConfig"
    /\ svc.config = [provider |-> "chatgpt", apiKey |-> "k2"]
    /\ svc.openai # NoClient
    /\ svc.anthropic = NoClient

\* C3: a call is dispatched to the adapter named by config.provider (claude,
\* chatgpt, qwen), and whenever the configuration has a non-empty key the
\* service is Ready: the client its provider needs exists.
C3_DispatchedAndReady ==
    /\ \A c \in inflight :
          build = "multi" => c.req.adapter = c.config.provider
    /\ (svc.exists /\ svc.config.apiKey # "") => IsConfigured(svc)

UserOrAssistant(data) ==
    \A k \in 1..Len(data) : data[k].sender \in {"user", "assistant"}

\* C4: for a history of more than 6 turns, all from user or assistant, the
\* turns sent are the first 2 and the last 3, in order: exactly 5.
C4_WindowOfLongHistory ==
    (sent # NotBuilt /\ Len(history) > 6 /\ UserOrAssistant(history))
        => /\ Len(sent) = 5
           /\ Positions(sent) = <<1, 2, Len(history) - 2, Len(history) - 1,
                                  Len(history)>>

C4_Witness ==
    /\ sent # NotBuilt
    /\ Len(history) = 7
    /\ UserOrAssistant(history)
    /\ Len(sent) = 5

\* C5 as stated: for any history of at most 6 turns, every turn is sent,
\* once, in its original order.
C5_ShortHistoryUnchanged ==
    (sent # NotBuilt /\ Len(history) <= 6)
        => Positions(sent) = [k \in 1..Len(history) |-> k]

\* the positions in S, in increasing order, are the positions of apiMessages
IsAscendingListOf(apiMessages, S) ==
    /\ Len(apiMessages) = Cardinality(S)
    /\ {apiMessages[k].idx : k \in 1..Len(apiMessages)} = S
    /\ \A j, k \in 1..Len(apiMessages) :
          j < k => apiMessages[j].idx < apiMessages[k].idx

\* C5 as amended: for any history of at most 6 turns, the turns sent are
\* the turns whose sender is user or assistant, each once, in their original
\* order, with their role; so a history of user and assistant turns only is
\* sent unchanged.
C5_ShortHistoryKeepsUserAssistant ==
    (sent # NotBuilt /\ Len(history) <= 6)
        => /\ IsAscendingListOf(sent,
                {k \in 1..Len(history) :
                    history[k].sender \in {"user", "assistant"}})
           /\ \A k \in 1..Len(sent) :
                 sent[k].role = history[sent[k].idx].sender
           /\ UserOrAssistant(history)
                 => Positions(sent) = [k \in 1..Len(history) |-> k]

C5_Witness ==
    /\ sent # NotBuilt
    /\ Len(history) = 6
    /\ UserOrAssistant(history)
    /\ Len(sent) = 6

\* positions of the user and assistant turns of data
EligiblePositions(data) ==
    {k \in 1..Len(data) : data[k].sender \in {"user", "assistant"}}

\* the p of S with exactly n members of S below it
Ranked(S, n) ==
    CHOOSE p \in S : Cardinality({q \in S : q < p}) = n

\* C6 as stated: the turns sent are the window (all when at most 6, else
\* first 2 and last 3) of the list of user and assistant turns.
C6_FilterThenWindow ==
    sent # NotBuilt =>
        LET e == EligiblePositions(history)
            n == Cardinality(e)
        IN  IsAscendingListOf(sent,
                IF n <= 6 THEN e
                ELSE {Ranked(e, 0), Ranked(e, 1), Ranked(e, n - 3),
                      Ranked(e, n - 2), Ranked(e, n - 1)})

\* C6 as amended: the window is taken on the whole list, system turns
\* included (all positions when it has at most 6 entries, else the first 2
\* and the last 3), and the turns sent are the user and assistant turns
\* among the positions selected.
C6_WindowThenFilter ==
    sent # NotBuilt =>
        LET n == Len(history)
            selected == IF n <= 6 THEN 1..n
                        ELSE {1, 2, n - 2, n - 1, n}
        IN  IsAscendingListOf(sent, selected \cap EligiblePositions(history))

C6_Witness ==
    /\ sent # NotBuilt
    /\ Len(history) = 7
    /\ history[2].sender = "system"
    /\ history[4].sender = "user"
    /\ Positions(sent) = <<1, 5, 6, 7>>

\* a content string within the declared limits
ValidContent(f) ==
    f.t = "string" /\ f.len > 0 /\ f.len <= SchemaContentMax

\* C7: an object with a valid content string and no title is accepted in
\* comment mode and rejected in post mode, where the diagnostic cites the
\* missing title.
C7_TitleRequiredOnlyForPost ==
    (/\ lastDiag.outcome \in {"result", "invalid"}
     /\ lastDiag.parsed.kind = "object"
     /\ ValidContent(lastDiag.parsed.content)
     /\ lastDiag.parsed.title = AbsentField)
        => /\ lastDiag.msgSource = "comment" => lastDiag.outcome = "result"
           /\ lastDiag.msgSource = "post"
                 => /\ lastDiag.outcome = "invalid"
                    /\ "missing_title" \in lastDiag.errors
                    /\ messages[Len(messages)].note = "formatError"

C7_Witness ==
    /\ lastDiag.outcome = "invalid"
    /\ lastDiag.msgSource = "post"
    /\ lastDiag.parsed.kind = "object"
    /\ ValidContent(lastDiag.parsed.content)
    /\ lastDiag.parsed.title = AbsentField
    /\ lastDiag.errors = {"missing_title"}

\* C8: no post-mode result message has an empty or absent title.
C8_PostResultHasTitle ==
    \A k \in 1..Len(messages) :
        (messages[k].type = "result" /\ messages[k].messageSource = "post")
            => messages[k].title.t = "string" /\ messages[k].title.len > 0

\* C9: a candidate is accepted only if it is an object whose content is a
\* non-empty string.
C9_AcceptedHasContent ==
    lastDiag.outcome = "result"
        => /\ lastDiag.parsed.kind = "object"
           /\ lastDiag.parsed.content.t = "string"
           /\ lastDiag.parsed.content.len > 0

\* C10: a content of exactly 1000 characters passes validation, and a content
\* of 1001 characters fails it with a diagnostic that names content.
C10_ContentCeiling ==
    (/\ lastDiag.outcome \in {"result", "invalid"}
     /\ lastDiag.parsed.kind = "object"
     /\ lastDiag.parsed.title = StringField(SchemaTitleMax))
        => /\ lastDiag.parsed.content = StringField(SchemaContentMax)
                 => lastDiag.outcome = "result"
           /\ lastDiag.parsed.content = StringField(SchemaContentMax + 1)
                 => /\ lastDiag.outcome = "invalid"
                    /\ "content_too_long" \in lastDiag.errors

\* what a chat message says apart from the reply text it quotes
MessageKind(m) ==
    <<m.type, m.sender, m.note>>

\* C11: a reply that does not parse and a reply that parses and fails
\* validation are reported differently: the message appended for a rejected
\* candidate differs, apart from the text quoted, from the message appended
\* for any text that does not parse.
C11_MalformedAndInvalidDiffer ==
    lastDiag.outcome = "invalid" =>
        \A t \in GarbageTexts \cup {EmptyText} :
            MessageKind(HandleOutcome(Returned(t), lastDiag.msgSource).msg)
                # MessageKind(messages[Len(messages)])

\* the candidate a reply carries fails to parse or fails validation
PayloadRejected(reply, msgSource) ==
    \/ reply.shape = "tool_use" /\ ~ValidateContentResponse(reply.cand, msgSource)
    \/ /\ reply.shape = "function_call"
       /\ reply.fname = TargetToolName(msgSource)
       /\ reply.text.body # "empty"
       /\ \/ JsonParse(reply.text).threw
          \/ ~ValidateContentResponse(JsonParse(reply.text).value, msgSource)
    \/ /\ reply.shape \in {"text", "content"}
       /\ \/ JsonParse(StripFence(reply.text)).threw
          \/ ~ValidateContentResponse(JsonParse(StripFence(reply.text)).value,
                                      msgSource)

\* C12: under every provider, when the reply to a request of the chat
\* interface carries a candidate that does not parse or fails validation, the
\* message appended is the assistant-style fallback, never the system-style
\* error message.
C12_RejectedPayloadFallsBack ==
    [][\A c \in inflight : \A reply \in RepliesOf(c.req.adapter) :
          (ChatCallSettles(c, reply) /\ PayloadRejected(reply, c.req.msgSource))
              => /\ Len(messages') = Len(messages) + 1
                 /\ messages'[Len(messages')].sender = "assistant"
                 /\ messages'[Len(messages')].note = "formatError"]_vars

\* C13: the diagnostic of a rejected candidate is never empty and lists
\* every violated rule among missing title (post), missing content, title
\* too long and content too long.
C13_DiagnosticComplete ==
    lastDiag.outcome = "invalid" =>
        /\ lastDiag.errors # {}
        /\ "threw" \notin lastDiag.errors
        /\ (lastDiag.msgSource = "post" /\ ~Truthy(lastDiag.parsed.title))
              => "missing_title" \in lastDiag.errors
        /\ ~Truthy(lastDiag.parsed.content)
              => "missing_content" \in lastDiag.errors
        /\ LongerThan(lastDiag.parsed.title, SchemaTitleMax)
              => "title_too_long" \in lastDiag.errors
        /\ LongerThan(lastDiag.parsed.content, SchemaContentMax)
              => "content_too_long" \in lastDiag.errors

\* the last chatCompletion call ended on a rejected request
ProviderFailed ==
    /\ lastResult.op = "chatCompletion"
    /\ lastResult.issued
    /\ lastResult.reply.shape = "error"

\* C14 as stated: a failure whose message contains "401" is AuthInvalid,
\* "429" RateLimited, "403" PermissionDenied, "quota" QuotaExceeded, and one
\* with none of them, or that is no Error, is a plain request failure.
C14_ClassifiedByMarker ==
    ProviderFailed =>
        LET e == lastResult.reply
            k == lastResult.out.kind
        IN  /\ (e.isError /\ "401" \in e.has) => k = "AuthInvalid"
            /\ (e.isError /\ "429" \in e.has) => k = "RateLimited"
            /\ (e.isError /\ "403" \in e.has) => k = "PermissionDenied"
            /\ (e.isError /\ "quota" \in e.has) => k = "QuotaExceeded"
            /\ (~e.isError \/ e.has = {}) => k = "RequestFailed"

\* C14 as amended: the failure is classified by the first marker its message
\* contains, in the order "401", "429", "403", "quota"; with none of them,
\* or when it is no Error, it is a plain request failure.
C14_ClassifiedByFirstMarker ==
    ProviderFailed =>
        LET e == lastResult.reply
            k == lastResult.out.kind
        IN  /\ (e.isError /\ "401" \in e.has) => k = "AuthInvalid"
            /\ (e.isError /\ "429" \in e.has /\ "401" \notin e.has)
                  => k = "RateLimited"
            /\ (e.isError /\ "403" \in e.has /\ e.has \cap {"401", "429"} = {})
                  => k = "PermissionDenied"
            /\ (e.isError /\ e.has = {"quota"}) => k = "QuotaExceeded"
            /\ (~e.isError \/ e.has = {}) => k = "RequestFailed"
            /\ ~lastResult.out.ok

C14_Witness ==
    /\ ProviderFailed
    /\ lastResult.reply.isError
    /\ lastResult.reply.has = {"429", "quota"}
    /\ lastResult.out.kind = "RateLimited"

\* the name of each configured provider in an error message
ProviderName(provider) ==
    IF provider = "claude" THEN "Claude"
    ELSE IF provider = "chatgpt" THEN "OpenAI"
    ELSE IF provider = "qwen" THEN "Qwen"
    ELSE "none"

ErrorKinds ==
    {"AuthInvalid", "RateLimited", "PermissionDenied", "QuotaExceeded",
     "RequestFailed"}

\* C15: every error a chatCompletion call raises after its request is one
\* of the five classified errors and its message names the configured
\* provider.
C15_ErrorNamesProvider ==
    (/\ build = "multi"
     /\ lastResult.op = "chatCompletion"
     /\ lastResult.issued
     /\ ~lastResult.out.ok)
        => /\ lastResult.out.kind \in ErrorKinds
           /\ lastResult.out.label = ProviderName(svc.config.provider)

\* the reply lacks the field the adapter reads its result from
LacksExpectedField(reply, msgSource) ==
    \/ reply.shape \in {"empty", "other", "message", "nochoice"}
    \/ reply.shape = "function_call"
          /\ (reply.fname # TargetToolName(msgSource) \/ reply.text.body = "empty")
    \/ reply.shape = "content" /\ reply.text.body = "empty"

\* C16: when the provider's response lacks the expected field, the adapter
\* raises an error instead of returning a result.
C16_MissingFieldRaises ==
    (/\ build = "multi"
     /\ lastResult.op = "chatCompletion"
     /\ lastResult.issued
     /\ LacksExpectedField(lastResult.reply, lastResult.msgSource))
        => ~lastResult.out.ok

\* C17: each call selects its contract from its own mode only: the tool it
\* forces, the instructions it sends and every instruction message among the
\* messages of its request are those of the mode it was called with, also
\* when an earlier call on the same array had another mode.
C17_ContractOfOwnMode ==
    \A c \in inflight :
        build = "multi" =>
            /\ c.req.instructions
                  = Instructions(c.req.adapter, build, c.req.msgSource)
            /\ c.req.adapter \in {"claude", "chatgpt"}
                  => c.req.toolChoice = TargetToolName(c.req.msgSource)
            /\ \A k \in 1..Len(c.req.turns) :
                  c.req.turns[k].idx = 0
                      => c.req.turns[k] = InstructionTurn(c.req.msgSource)

\* C18: no chatCompletion call changes the message array it was given, so
\* the request of a call carries the caller's messages whatever calls ran
\* before it.
C18_ArgumentUnchanged ==
    [][sent' = sent]_vars

\* C19: nothing is retried: a request (one invocation of the client's
\* create method) in flight is the first attempt of its call, a step starts
\* at most one request, and it starts one only when a user message is sent;
\* the end of a request, whatever the reply, starts none.
C19_NoRetry ==
    [][/\ \A c \in inflight' : c.attempt = 1
       /\ Cardinality(inflight' \ inflight) <= 1
       /\ inflight' \ inflight # {}
             => /\ inflight \subseteq inflight'
                /\ Len(messages') = Len(messages) + 1
                /\ messages'[Len(messages')].type = "user"
       /\ inflight \ inflight' # {} => inflight' \subseteq inflight]_vars

C19_Witness ==
    /\ inflight = {}
    /\ ~isLoading
    /\ Len(messages) = 3
    /\ messages[2].type = "user"
    /\ messages[3] = ErrorMessage("RateLimited")

\* the three messages a request of the chat interface can end with
IsClosingMessage(m) ==
    \/ m.type = "result" /\ m.sender = "assistant"
    \/ m.type = "ai" /\ m.sender = "assistant" /\ m.note = "formatError"
    \/ m.type = "ai" /\ m.sender = "system"

\* C20: a request of the chat interface that returns or fails appends
\* exactly one message (result, assistant-style fallback or system-style
\* error) and resets the loading flag; a send appends the user message and
\* either starts a request with the flag set, or fails before any request and
\* appends the one error message with the flag left false; the flag is set
\* exactly while a request is pending.
C20_OneMessagePerRequest ==
    [][/\ inflight \ inflight' # {}
             => /\ ~isLoading'
                /\ Len(messages') = Len(messages) + 1
                /\ SubSeq(messages', 1, Len(messages)) = messages
                /\ IsClosingMessage(messages'[Len(messages')])
       /\ (inflight' \ inflight # {})
             => /\ isLoading'
                /\ Len(messages') = Len(messages) + 1
                /\ messages'[Len(messages')].type = "user"
       /\ (inflight' = inflight /\ messages' # messages)
             => /\ ~isLoading'
                /\ Len(messages') = Len(messages) + 2
                /\ SubSeq(messages', 1, Len(messages)) = messages
                /\ messages'[Len(messages') - 1].type = "user"
                /\ messages'[Len(messages')].sender = "system"
       /\ isLoading' <=> (inflight' # {})]_vars

C20_Witness ==
    /\ ~isLoading
    /\ inflight = {}
    /\ Len(messages) = 3
    /\ messages[3].type = "result"
    /\ lastDiag.outcome = "result"

\* the fence shapes that wrap a text in a json fence or in a bare fence
WrappingShapes ==
    {"json", "plain", "json_tight", "plain_tight", "json_padded"}

\* C21: for any JSON text J, extracting from J wrapped in a json fence or in
\* a bare fence yields the object that extracting from J itself yields, and
\* an unfenced J is left unchanged by the fence removal
C21_FenceRoundTrip ==
    LET text == lastResult.out.content
        bare == [text EXCEPT !.fence = "none"]
    IN  (lastDiag.outcome \in {"parsed", "malformed"} /\ text.body = "json")
            => /\ text.fence \in WrappingShapes \cup {"none"}
                    => /\ lastDiag.outcome = "parsed"
                       /\ ~JsonParse(StripFence(bare)).threw
                       /\ lastDiag.parsed = JsonParse(StripFence(bare)).value
                       /\ lastDiag.parsed = text.value
               /\ text.fence = "none"
                    => /\ CleanedContent(Render("none", text.body))
                            = Render("none", text.body)
                       /\ StripFence(text) = text

C21_Witness ==
    /\ lastDiag.outcome = "parsed"
    /\ lastResult.out.content.fence = "plain"
    /\ lastResult.out.content.value \in ObjectCandidates

\* C22: an updateConfig executed while a chatCompletion call awaits its
\* provider leaves that call as it was issued; the call settles through the
\* adapter it started with, on the reply its own request received, whatever
\* the service holds by then; and a call issued later carries the adapter,
\* the client and the configuration the service holds when it is issued
C22_InFlightCallUnaffected ==
    [][/\ svc' # svc => inflight' = inflight
       /\ \A c \in inflight \ inflight' :
            /\ lastResult'.op = "chatCompletion"
            /\ lastResult'.issued
            /\ lastResult'.key = c.config.apiKey
            /\ lastResult'.out = Settle(c.req.adapter, lastResult'.reply,
                                        c.req.msgSource)
       /\ \A c \in inflight' \ inflight :
            /\ c.config = svc'.config
            /\ c.req.adapter = Adapter(build, svc')
            /\ c.req.client = AdapterClient(svc', Adapter(build, svc'))
            /\ c.req.client # NoClient]_vars

\* a call returned its content after the service was given another key
C22_Witness ==
    /\ lastResult.op = "chatCompletion"
    /\ lastResult.issued
    /\ lastResult.out.ok
    /\ svc.exists
    /\ lastResult.key # svc.config.apiKey
    /\ svc.config.apiKey # ""

\* C23: one title ceiling of 20 characters on every path: in post mode a
\* parsed object with a string title and an acceptable content is accepted
\* exactly when its title has at most 20 characters, and no post result
\* message carries a longer title
C23_TitleCeiling ==
    /\ (/\ lastDiag.outcome \in {"result", "invalid"}
        /\ lastDiag.msgSource = "post"
        /\ lastDiag.parsed.kind = "object"
        /\ IsString(lastDiag.parsed.title)
        /\ lastDiag.parsed.content = StringField(SchemaContentMax))
          => (lastDiag.outcome = "result"
                <=> ~LongerThan(lastDiag.parsed.title, SchemaTitleMax))
    /\ \A i \in 1..Len(messages) :
          (messages[i].type = "result" /\ messages[i].messageSource = "post")
              => ~LongerThan(messages[i].title, SchemaTitleMax)

\* an image string that is a data-URI: the data scheme, then a comma
IsDataUri(img) ==
    Head(img) = "data:" /\ \E k \in 1..Len(img) : img[k] = ","

\* the text of an image string after its first comma
AfterFirstComma(img) ==
    CHOOSE rest \in {SubSeq(img, k + 1, Len(img)) : k \in 1..Len(img)} :
        \E k \in 1..Len(img) :
            /\ img[k] = ","
            /\ \A j \in 1..(k - 1) : img[j] # ","
            /\ rest = SubSeq(img, k + 1, Len(img))

\* the image parts of a content array, in the array's order
ImageParts(content) ==
    SelectSeq(content, LAMBDA part : part.type = "image")

\* C24: in a turn of the Claude-format builder every image that arrives as a
\* data-URI is embedded as the text after its first comma, every other
\* image string is embedded unchanged, and the image parts are in the order
\* of the input images
C24_ImagesStrippedInOrder ==
    (sent # NotBuilt /\ Len(sent) = 1)
        => LET imgs == history[1].images
               parts == ImageParts(sent[1].content)
           IN  /\ Len(parts) = Len(imgs)
               /\ \A k \in 1..Len(imgs) :
                    parts[k].data = IF IsDataUri(imgs[k])
                                    THEN AfterFirstComma(imgs[k])
                                    ELSE imgs[k]

\* a built turn with a data-URI image followed by an image that is none
C24_Witness ==
    /\ sent # NotBuilt
    /\ Len(sent) = 1
    /\ Len(history[1].images) = 2
    /\ IsDataUri(history[1].images[1])
    /\ ~IsDataUri(history[1].images[2])
    /\ Len(ImageParts(sent[1].content)) = 2

\* C25: a request that forces a tool call declares exactly one callable,
\* the forced one, and in post and in comment mode that callable requires
\* the fields of the mode's schema: title and content for a post, content
\* alone for a comment
C25_OneForcedCallable ==
    \A c \in inflight :
        c.req.toolChoice # "none"
            => /\ c.req.tools = {c.req.toolChoice}
               /\ c.req.msgSource = "post"
                    => ToolRequired(c.req.toolChoice) = {"title", "content"}
               /\ c.req.msgSource = "comment"
                    => ToolRequired(c.req.toolChoice) = {"content"}

\* C26: the reply to a request is appended only to the conversation the
\* request was issued in: when a request of the chat settles and a message
\* is appended, the list it is appended to still holds the user message that
\* issued the request
C26_NoLateReplyAfterClear ==
    [][\A c \in inflight :
          (c.origin = "chat" /\ c \notin inflight'
              /\ Len(messages') = Len(messages) + 1)
            => \E i \in 1..Len(messages) : messages[i].type = "user"]_vars

\* the content-script action that matches the mode of a result message
MatchingChannel(msg) ==
    IF msg.messageSource = "post" THEN "applyEditedContent"
    ELSE "applyCommentContent"

\* C29: an apply click appends nothing by itself, and when its exchange ends
\* exactly one system message is appended: the success message only if the
\* content script reported success over the channel that matches the mode
\* of the result, the failure message whenever the tab or the data is
\* missing, the content script reported no success, or the request raised
C29_OneMessagePerApply ==
    [][/\ \A p \in ports' \ ports :
            p.action \in ApplyActions => messages' = messages
       /\ \A p \in ports :
            (p.action \in ApplyActions /\ \A q \in ports' : q.id # p.id)
              => /\ Len(messages') = Len(messages) + 1
                 /\ SubSeq(messages', 1, Len(messages)) = messages
                 /\ messages'[Len(messages')]
                        \in {ApplySuccessMessage, ApplyFailureMessage}
                 /\ messages'[Len(messages')] = ApplySuccessMessage
                      => /\ p.report = "success"
                         /\ p.forwarded = MatchingChannel(messages[p.target])
                 /\ p.report # "success"
                      => messages'[Len(messages')] = ApplyFailureMessage]_vars

\* a comment result was applied and the chat says so
C29_Witness ==
    /\ Len(messages) = 4
    /\ messages[3].type = "result"
    /\ messages[3].messageSource = "comment"
    /\ messages[4] = ApplySuccessMessage

\* C30: every message the background listener received is answered exactly
\* once and its sender receives the answer: while a handler is still to
\* answer, the response channel is open, and once the handling is over
\* sendResponse has been called once and the sender holds that response
C30_AnsweredExactlyOnce ==
    \A p \in ports :
        /\ p.calls <= 1
        /\ p.stage = "handling" => p.open /\ p.answer = "none"
        /\ p.stage = "done"
              => p.calls = 1 /\ p.answer \in {"success", "failure", "error"}

\* the user messages of the chat, in order
UserTurns ==
    SelectSeq(messages, LAMBDA msg : msg.type = "user")

\* C27: the mode is carried across turns: in a conversation whose only user
\* message so far was sent in comment mode, a typed message that names no
\* mode is sent in comment mode, whatever message is last in the chat, and
\* the request issued for it is a comment request
C27_ModeCarried ==
    [][(/\ Len(UserTurns) = 1
        /\ UserTurns[1].messageSource = "comment"
        /\ HandleSendMessageWithin("none", MaxTurnMsgs))
          => /\ messages'[Len(messages) + 1].messageSource = "comment"
             /\ \A c \in inflight' \ inflight : c.req.msgSource = "comment"]_vars

\* the fields validateContentResponse requires of a reply in a mode
ValidatorRequires(msgSource) ==
    {"content"} \cup
        (IF ValidateContentResponse(
                [kind |-> "object", title |-> AbsentField,
                 content |-> StringField(SchemaContentMax)], msgSource)
         THEN {} ELSE {"title"})

\* the fields the result message built in a mode carries
ResultCarries(msgSource) ==
    IF ResultMessage([kind |-> "object", title |-> StringField(SchemaTitleMax),
                      content |-> StringField(SchemaContentMax)],
                     msgSource).note = "generatedPostData"
    THEN {"title", "content"} ELSE {"content"}

\* C28: for every message source the forced tool, the instructions, the
\* validator and the result message agree on the contract of a request:
\* all four are about title and content, or all four about content alone
C28_ContractAgrees ==
    \A c \in inflight :
        (c.origin = "chat" /\ c.req.adapter \in {"claude", "chatgpt", "qwen"})
          => /\ InstructionsAskFor(c.req.instructions)
                    = ValidatorRequires(c.req.msgSource)
             /\ ResultCarries(c.req.msgSource)
                    = ValidatorRequires(c.req.msgSource)
             /\ c.req.toolChoice # "none"
                  => ToolRequired(c.req.toolChoice)
                        = ValidatorRequires(c.req.msgSource)

====
